---------------------------- MODULE Spec2Model ----------------------------
(***************************************************************************)
(* The curve-animation engine of TheJP/BezierCurves.                       *)
(*                                                                         *)
(* The main specification, Spec, follows src/unnamed/part_000 (the         *)
(* palette variant with the warm-up rendering loop) together with the two  *)
(* sliders of src/fiddle/fiddle.js that change the history constants at    *)
(* run time.  The older variants of src/script.js share the history and    *)
(* motion code line for line; where they differ (the skipped first frame)  *)
(* they get actions of their own further down.                             *)
(*                                                                         *)
(* Numbers.  The source computes with IEEE doubles.  The model computes    *)
(* with integers: a coordinate, a speed and a step component are all       *)
(* counted in thousandths (Unit), a timestamp in milliseconds, and every   *)
(* quotient is rounded to the nearest integer (RoundDiv), as a double      *)
(* quotient is rounded to the nearest double.  Array indices are the       *)
(* source's (0-based) for control points and the binomial table; the       *)
(* history is a TLA+ sequence, oldest first, so JS index i is index i+1.   *)
(***************************************************************************)
EXTENDS Integers, Sequences, FiniteSets, TLC

(***************************************************************************)
(* Bounds of the model.                                                    *)
(***************************************************************************)
\* Largest curve degree n the model starts with (the source fixes n = 12).
MaxDegree == 2
\* Largest value the "Curve Count" slider is moved to (its range is 0..1000).
MaxCurveCount == 2
\* Frame callbacks the host delivers before it stops.
MaxFrames == 3
\* Frame callbacks of the 31-frame scenario, and two more.
ScenarioFrames == 33

\* One in curve space, [0, 1]^2, counted in thousandths.
Unit == 1000
\* Step of the warm-up's artificial clock.
WarmupStep == 16

\* Values Math.random() returns in the model: 0 and 0.5, in thousandths.
RandomValues == {0, 500}
\* Values of consts.newCurveMs (the slider's range is 1..5000).
IntervalValues == {16, 40}
\* Values of consts.maxCurves.
CurveCountValues == 0..MaxCurveCount
\* Time between two frame callbacks of the host, in milliseconds: the same
\* instant again, a 60 Hz frame, and a pause.
FrameDeltas == {0, 16, 1500}
\* Timestamp of the first frame callback (a DOMHighResTimeStamp, positive).
FirstTimestamps == {100}
\* Frame pacing that brings a control point next to its target: see C10.
MotionDeltas == {0, 3400}
\* Frame gaps with a pause: a 60 Hz frame, and five seconds.
PauseDeltas == {16, 5000}
\* Warm-up durations createRenderingLoop is given.
WarmupValues == {0, 15, 16, 100, 800}
\* The constants of the 31-frame scenario: those of src/script.js, third variant.
ScenarioInterval == 1000
ScenarioCurves == 30
\* First timestamps of the scenario's driver.
ScenarioStarts == {0, 100}
\* Largest degree the "Curve Control Points" slider offers (its range is 1..20).
DegreeSliderMax == 20
\* Number of palettes in colourMap, the length of colourIndices.
PaletteCount == 9
\* Clicks on the canvas before the user stops.
MaxClicks == 10
\* Largest value the "Render Quality" slider is moved to (its range is 1..300).
MaxSegments == 4
\* Width and height of the canvas, in pixels.
CanvasWidth == 3
CanvasHeight == 2
\* Arguments getNChooseX is called with: every index, and two beyond either end.
LookupArguments == -2..(DegreeSliderMax + 2)

VARIABLES
    n,                   \* degree of the curves
    binomial,            \* first half of row n of Pascal's triangle
    cacheReady,          \* the readiness gate
    consts,              \* the animation constants
    lastFrame,           \* vars.lastFrame
    lastNewCurve,        \* vars.lastNewCurve
    curves,              \* vars.curves: the history, oldest first
    mainCurve,           \* vars.mainCurve: the live curve
    enableRendering,     \* vars.enableRendering
    warmup,              \* createRenderingLoop's parameter
    artificialTimestamp, \* createRenderingLoop's local
    firstRealTimestamp,  \* createRenderingLoop's local
    pc,                  \* where the program is
    drawing,             \* a canvasDrawFrame call has updated and is about to render
    deltas,              \* the host's frame pacing: the gaps it may leave
    randoms,             \* the values Math.random() may return
    frames,              \* frame callbacks the host has delivered
    clock,               \* the last timestamp the host delivered
    update,              \* the elapsed time the latest canvasDrawFrame call computed
    inserted,            \* snapshots the latest call pushed
    evicted,             \* snapshots the latest call spliced off
    updates,             \* canvasDrawFrame calls that got as far as the update
    evictions,           \* snapshots spliced off so far
    warmupCalls,         \* canvasDrawFrame calls made by the warm-up loop
    canvas,              \* what the latest call stroked: the curves, in order
    currentColoursIndex, \* index of the active palette in colourIndices
    looked,              \* the latest getNChooseX call: its argument and result
    path,                \* the latest renderCurve call: the points of its polyline
    clicks,              \* clicks on the canvas so far
    colourUses,          \* the latest rendering: the palette's length, the indices it read
    raised               \* the error the latest frame callback raised, "" if none

env == << deltas, randoms >>
table == << n, binomial, cacheReady >>
live == << lastFrame, lastNewCurve, curves, mainCurve >>
ghost == << update, inserted, evicted, updates, evictions >>
loop == << enableRendering, warmup, artificialTimestamp, firstRealTimestamp >>
host == << frames, clock >>
paint == << currentColoursIndex, looked, path, clicks, colourUses >>

vars == << env, table, consts, live, loop, pc, drawing, host, ghost,
           warmupCalls, canvas, paint, raised >>

\* What the engine owns: everything a frame may change before it renders.
engine == << table, consts, live, enableRendering >>

(***************************************************************************)
(* Arithmetic.                                                             *)
(***************************************************************************)
Abs(a) == IF a < 0 THEN -a ELSE a

\* a / b rounded to the nearest integer, halves away from zero (b > 0).
RoundDiv(a, b) ==
    IF a >= 0 THEN (2 * a + b) \div (2 * b) ELSE -((2 * (-a) + b) \div (2 * b))

RECURSIVE SqrtIter(_, _)
SqrtIter(v, r) ==
    CHOOSE root \in { IF next >= r THEN r ELSE SqrtIter(v, next) :
                        next \in {(r + v \div r) \div 2} } : TRUE

\* Math.sqrt on thousandths: the nearest integer to the square root of v.
Sqrt(v) ==
    IF v = 0 THEN 0
    ELSE LET r == SqrtIter(v, v)
         IN IF (r + 1) * (r + 1) - v < v - r * r THEN r + 1 ELSE r

(***************************************************************************)
(* The binomial cache.                                                     *)
(***************************************************************************)
\* cache2 without the doubling of the middle element.
NextRowPlain(cache, even) ==
    LET len == Len(cache) + (IF even THEN 1 ELSE 0)
    IN [j \in 1..len |->
          IF j = 1 THEN 1
          ELSE IF j - 1 # Len(cache) THEN cache[j - 1] + cache[j]
          ELSE cache[j - 1]]

\* One row of the cache from the row before: cache2 of the source.
NextRow(cache, even) ==
    LET len == Len(cache) + (IF even THEN 1 ELSE 0)
    IN [j \in 1..len |->
          IF j = 1 THEN 1
          ELSE IF j - 1 # Len(cache) THEN cache[j - 1] + cache[j]
          ELSE 2 * cache[j - 1]]

RECURSIVE CacheRows(_, _, _, _)
CacheRows(cache, even, i, deg) ==
    IF i > deg THEN cache
    ELSE CacheRows(NextRow(cache, ~even), ~even, i + 1, deg)

\* The lookup table for degree deg: binomial[x + 1] is deg choose x, 2x <= deg.
BuildBinomial(deg) == CacheRows(<<1>>, TRUE, 1, deg)

getNChooseX(x) ==
    IF x < 0 \/ x > n THEN 0
    ELSE IF 2 * x <= n THEN binomial[x + 1] ELSE binomial[n - x + 1]

(***************************************************************************)
(* Points and curves.                                                      *)
(***************************************************************************)
AnimatedPoint(x, y) ==
    [x |-> x, y |-> y, targetX |-> x, targetY |-> y, stepX |-> 0, stepY |-> 0]

\* A copy of the point's target instead of its position.
toPointTarget(p) == [x |-> p.targetX, y |-> p.targetY]
toPoint(p) == [x |-> p.x, y |-> p.y]

\* A history entry: the live curve's positions, and the time it was pushed.
Snapshot(curve, timestamp) ==
    [points |-> [i \in DOMAIN curve |-> toPoint(curve[i])], born |-> timestamp]

\* consts as the source writes them, for a given interval and curve count.
Consts(interval, count) ==
    [newCurveMs |-> interval,
     maxCurves |-> count,
     curveAnimationSpeed |-> 10,
     squaredCurveAnimationSpeed |-> 10 * 10,
     maxSegmentPerPoint |-> 300,
     numberOfSegments |-> 100,
     verticalCompression |-> 350]

(***************************************************************************)
(* animateCurve.                                                           *)
(***************************************************************************)
\* step * squaredSpeed * update, all in thousandths, as thousandths.
StepBy(step, squared, upd) ==
    LET a == Abs(step) * squared
        whole == (a \div Unit) * upd
        part == ((a % Unit) * upd) \div Unit
        d == RoundDiv(whole + part, Unit)
    IN IF step < 0 THEN -d ELSE d

\* The body of animateCurve's loop for point i; rx, ry are the two random draws.
AnimatePoint(point, i, upd, rx, ry) ==
    LET distanceX == point.targetX - point.x
        distanceY == point.targetY - point.y
        squared == consts.squaredCurveAnimationSpeed
    IN IF distanceX * distanceX + distanceY * distanceY <= squared
          /\ i # 0 /\ i # n
       THEN LET tx == RoundDiv(rx * consts.maxSegmentPerPoint, Unit)
                      + RoundDiv(i * (Unit - consts.maxSegmentPerPoint), n)
                ty == ry
                norm == Sqrt(tx * tx + ty * ty)
            IN [x |-> point.targetX, y |-> point.targetY,
                targetX |-> tx, targetY |-> ty,
                stepX |-> RoundDiv((tx - point.targetX) * Unit, norm),
                stepY |-> RoundDiv((ty - point.targetY) * Unit, norm)]
       ELSE LET x1 == point.x + StepBy(point.stepX, squared, upd)
                y1 == point.y + StepBy(point.stepY, squared, upd)
                skipped == (point.targetX - x1) * (point.targetX - x1)
                           + (point.targetY - y1) * (point.targetY - y1)
                           > distanceX * distanceX + distanceY * distanceY
            IN IF skipped
               THEN [point EXCEPT !.x = point.targetX, !.y = point.targetY]
               ELSE [point EXCEPT !.x = x1, !.y = y1]

\* rnd[i] is the pair of draws point i would consume.
animateCurve(curve, upd, rnd) ==
    [i \in DOMAIN curve |->
       IF i \in DOMAIN rnd
       THEN AnimatePoint(curve[i], i, upd, rnd[i][1], rnd[i][2])
       ELSE AnimatePoint(curve[i], i, upd, 0, 0)]

\* The draws of one call: only an interior point ever draws.
Draws == [1..(n - 1) -> randoms \X randoms]

(***************************************************************************)
(* The history buffer.                                                     *)
(***************************************************************************)
\* "Create new curves": whether this frame pushes a snapshot.
DueStrict(timestamp) == timestamp - lastNewCurve > consts.newCurveMs
Due(timestamp) == timestamp - lastNewCurve >= consts.newCurveMs

\* "Remove curves until maximum is reached": how many are spliced off the front.
OverflowOnce(history) == IF Len(history) > consts.maxCurves THEN 1 ELSE 0
OverflowEager(history) ==
    IF Len(history) >= consts.maxCurves /\ Len(history) > 0
    THEN Len(history) - consts.maxCurves + 1 ELSE 0
Overflow(history) ==
    IF Len(history) > consts.maxCurves THEN Len(history) - consts.maxCurves ELSE 0

SpliceNewest(history) == SubSeq(history, 1, Len(history) - Overflow(history))
Splice(history) == SubSeq(history, Overflow(history) + 1, Len(history))


(***************************************************************************)
(* canvasDrawFrame, in its two halves: the update (up to "Remove curves")  *)
(* and the rendering ("No state updates beyond this point!").              *)
(***************************************************************************)
canvasDrawFrame(timestamp) ==
    /\ update' = timestamp - lastFrame
    /\ lastFrame' = timestamp
    /\ drawing' = TRUE
    /\ IF ~cacheReady
       THEN /\ inserted' = 0
            /\ evicted' = 0
            /\ UNCHANGED << mainCurve, lastNewCurve, curves, updates, evictions >>
       ELSE \E rnd \in Draws :
              LET moved == animateCurve(mainCurve, timestamp - lastFrame, rnd)
                  pushed == IF Due(timestamp)
                            THEN Append(curves, Snapshot(moved, timestamp))
                            ELSE curves
              IN /\ mainCurve' = moved
                 /\ lastNewCurve' = IF Due(timestamp) THEN timestamp ELSE lastNewCurve
                 /\ inserted' = Len(pushed) - Len(curves)
                 /\ evicted' = Overflow(pushed)
                 /\ evictions' = evictions + Overflow(pushed)
                 /\ curves' = Splice(pushed)
                 /\ updates' = updates + 1

\* The curves the rendering half strokes: the history from index 0, then the live curve.
Strokes ==
    [i \in 1..Len(curves) |-> curves[i].points]
    \o << [i \in DOMAIN mainCurve |-> toPoint(mainCurve[i])] >>

\* The number of colours of each palette, in the order of colourIndices.
PaletteLengths == << 6, 5, 4, 5, 4, 3, 2, 3, 5 >>

\* The indices the history loop reads from a palette of the given length, from
\* curve i on, colourIndex being the index the curve before left behind:
\* colours[colourIndex], then colours[nextColourIndex] when the two differ.
RECURSIVE ColourReads(_, _, _)
ColourReads(i, colourIndex, length) ==
    IF i >= Len(curves) THEN {}
    ELSE LET nextColourIndex == (length * i) \div consts.maxCurves
         IN {colourIndex, nextColourIndex}
            \cup ColourReads(i + 1, nextColourIndex, length)

\* What a rendering reads from the active palette: the history loop's indices,
\* colours[0] for the fading top line and colours[length - 1] for the live curve.
ColourUses ==
    LET length == PaletteLengths[currentColoursIndex + 1]
    IN [length |-> length,
        indices |-> ColourReads(0, 0, length)
                    \cup (IF curves = << >> THEN {} ELSE {0})
                    \cup {length - 1}]

RenderEvicting ==
    /\ drawing
    /\ pc \in {"warmup", "idle", "drive"}
    /\ drawing' = FALSE
    /\ canvas' = IF cacheReady /\ enableRendering THEN Strokes ELSE << >>
    /\ curves' = IF curves = << >> THEN curves ELSE Tail(curves)
    /\ artificialTimestamp' =
         IF pc = "warmup" THEN artificialTimestamp + WarmupStep
         ELSE artificialTimestamp
    /\ colourUses' = IF cacheReady /\ enableRendering THEN ColourUses ELSE colourUses
    /\ UNCHANGED << raised, currentColoursIndex, looked, path, clicks, env, table, consts,
                    lastFrame, lastNewCurve, mainCurve,
                    enableRendering, warmup, firstRealTimestamp, pc, host,
                    ghost, warmupCalls >>

Render ==
    /\ drawing
    /\ pc \in {"warmup", "idle", "drive"}
    /\ drawing' = FALSE
    /\ canvas' = IF cacheReady /\ enableRendering THEN Strokes ELSE << >>
    /\ artificialTimestamp' =
         IF pc = "warmup" THEN artificialTimestamp + WarmupStep
         ELSE artificialTimestamp
    /\ colourUses' = IF cacheReady /\ enableRendering THEN ColourUses ELSE colourUses
    /\ UNCHANGED << raised, currentColoursIndex, looked, path, clicks, env, table, consts,
                    live, enableRendering, warmup,
                    firstRealTimestamp, pc, host, ghost, warmupCalls >>

(***************************************************************************)
(* Start-up: the cache calculation at the end of the script.               *)
(***************************************************************************)
CacheBinomialReady ==
    /\ pc = "binomial"
    /\ binomial' = BuildBinomial(n)
    /\ cacheReady' = TRUE
    /\ pc' = "curve"
    /\ UNCHANGED << raised, paint, env, n, consts, live, loop, drawing, host, ghost,
                    warmupCalls, canvas >>

CacheBinomial ==
    /\ pc = "binomial"
    /\ binomial' = BuildBinomial(n)
    /\ pc' = "curve"
    /\ UNCHANGED << raised, paint, env, n, cacheReady, consts, live, loop, drawing, host,
                    ghost, warmupCalls, canvas >>

\* xs after xs.sort(): 0 first, then the draws in ascending order.
SortedXs == { xs \in [0..(n - 1) -> randoms \cup {0}] :
                /\ xs[0] = 0
                /\ \A i \in 1..(n - 1) : xs[i] \in randoms /\ xs[i - 1] <= xs[i] }

\* The main curve as the cache calculation seeds it.
SeedCurves ==
    { [i \in 0..n |->
         IF i = 0 THEN AnimatedPoint(-100, 500)
         ELSE IF i = n THEN AnimatedPoint(1100, 500)
         ELSE AnimatedPoint(xs[i], ys[i])] :
      xs \in SortedXs, ys \in [1..(n - 1) -> randoms] }

CacheCurve ==
    /\ pc = "curve"
    /\ mainCurve' \in SeedCurves
    /\ pc' = "ready"
    /\ UNCHANGED << raised, paint, env, table, consts, lastFrame, lastNewCurve, curves, loop,
                    drawing, host, ghost, warmupCalls, canvas >>

CacheReady ==
    /\ pc = "ready"
    /\ cacheReady' = TRUE
    /\ pc' = "load"
    /\ UNCHANGED << raised, paint, env, n, binomial, consts, live, loop, drawing, host, ghost,
                    warmupCalls, canvas >>

(***************************************************************************)
(* createRenderingLoop.                                                    *)
(***************************************************************************)
\* A warm-up of a single interval.
OnWindowLoadOneInterval ==
    /\ pc = "load"
    /\ warmup' = consts.newCurveMs
    /\ lastFrame' = -WarmupStep
    /\ artificialTimestamp' = 0
    /\ pc' = "warmup"
    /\ UNCHANGED << raised, paint, env, table, consts, lastNewCurve, curves, mainCurve,
                    enableRendering, firstRealTimestamp, drawing, host, ghost,
                    warmupCalls, canvas >>

\* onWindowLoad calls createRenderingLoop(maxCurves * newCurveMs): its first two lines.
OnWindowLoad ==
    /\ pc = "load"
    /\ warmup' = consts.maxCurves * consts.newCurveMs
    /\ lastFrame' = -WarmupStep
    /\ artificialTimestamp' = 0
    /\ pc' = "warmup"
    /\ UNCHANGED << raised, paint, env, table, consts, lastNewCurve, curves, mainCurve,
                    enableRendering, firstRealTimestamp, drawing, host, ghost,
                    warmupCalls, canvas >>

\* The warm-up loop's condition.
WarmupPendingStrict == artificialTimestamp < warmup
WarmupPending == artificialTimestamp <= warmup

\* One turn of the warm-up loop.
WarmupFrame ==
    /\ pc = "warmup"
    /\ ~drawing
    /\ WarmupPending
    /\ canvasDrawFrame(artificialTimestamp)
    /\ warmupCalls' = warmupCalls + 1
    /\ UNCHANGED << raised, paint, env, table, consts, loop, pc, host, canvas >>

\* The loop is over: rendering is enabled and the first frame is requested.
WarmupDone ==
    /\ pc = "warmup"
    /\ ~drawing
    /\ ~WarmupPending
    /\ firstRealTimestamp' = 0
    /\ enableRendering' = TRUE
    /\ pc' = "idle"
    /\ UNCHANGED << raised, paint, env, table, consts, live, warmup, artificialTimestamp,
                    drawing, host, ghost, warmupCalls, canvas >>

\* The timestamp renderFrame hands to canvasDrawFrame.
SimulatedRaw(timestamp) == timestamp
Simulated(timestamp) == artificialTimestamp + (timestamp - firstRealTimestamp)

\* The host calls renderFrame(timestamp).
renderFrame(timestamp) ==
    /\ pc = "idle"
    /\ ~drawing
    /\ clock' = timestamp
    /\ frames' = frames + 1
    /\ IF firstRealTimestamp = 0
       THEN /\ firstRealTimestamp' = timestamp
            /\ UNCHANGED << live, drawing, ghost >>
       ELSE /\ canvasDrawFrame(Simulated(timestamp))
            /\ UNCHANGED firstRealTimestamp
    /\ UNCHANGED << raised, paint, env, table, consts, enableRendering, warmup,
                    artificialTimestamp, pc, warmupCalls, canvas >>

\* The host's next animation frame: timestamps never decrease.
AnimationFrame ==
    /\ frames < MaxFrames
    /\ \/ /\ frames = 0
          /\ \E t \in FirstTimestamps : renderFrame(t)
       \/ /\ frames > 0
          /\ \E d \in deltas : renderFrame(clock + d)

(***************************************************************************)
(* The tuning panel (src/fiddle/fiddle.js).                                *)
(***************************************************************************)
SliderCurveCount ==
    /\ pc = "idle"
    /\ ~drawing
    /\ \E value \in CurveCountValues :
         /\ value # consts.maxCurves
         /\ consts' = [consts EXCEPT !.maxCurves = value]
    /\ UNCHANGED << raised, paint, env, table, live, loop, pc, drawing, host, ghost,
                    warmupCalls, canvas >>

SliderInterval ==
    /\ pc = "idle"
    /\ ~drawing
    /\ \E value \in IntervalValues :
         /\ value # consts.newCurveMs
         /\ consts' = [consts EXCEPT !.newCurveMs = value]
    /\ UNCHANGED << raised, paint, env, table, live, loop, pc, drawing, host, ghost,
                    warmupCalls, canvas >>

(***************************************************************************)
(* The program.                                                            *)
(***************************************************************************)
\* The globals as the script declares them, before the cache calculation runs.
Declared(deg, interval, count, pacing, rng) ==
    /\ n = deg
    /\ binomial = << >>
    /\ cacheReady = FALSE
    /\ consts = Consts(interval, count)
    /\ lastFrame = 0
    /\ lastNewCurve = -interval
    /\ curves = << >>
    /\ mainCurve = << >>
    /\ enableRendering = FALSE
    /\ warmup = 0
    /\ artificialTimestamp = 0
    /\ firstRealTimestamp = 0
    /\ pc = "binomial"
    /\ drawing = FALSE
    /\ deltas = pacing
    /\ randoms = rng
    /\ frames = 0
    /\ clock = 0
    /\ update = 0
    /\ inserted = 0
    /\ evicted = 0
    /\ updates = 0
    /\ evictions = 0
    /\ warmupCalls = 0
    /\ canvas = << >>
    /\ currentColoursIndex = 0
    /\ looked = << >>
    /\ path = << >>
    /\ colourUses = [length |-> 0, indices |-> {}]
    /\ clicks = 0
    /\ raised = ""

Init ==
    \E deg \in 1..MaxDegree, interval \in IntervalValues, count \in CurveCountValues :
        Declared(deg, interval, count, FrameDeltas, RandomValues)

Next ==
    \/ CacheBinomial
    \/ CacheCurve
    \/ CacheReady
    \/ OnWindowLoad
    \/ WarmupFrame
    \/ WarmupDone
    \/ AnimationFrame
    \/ Render
    \/ SliderCurveCount
    \/ SliderInterval

Spec == Init /\ [][Next]_vars

\* The same program under a frame pacing that lets a control point arrive.
InitMotion ==
    \E deg \in 1..MaxDegree, interval \in IntervalValues, count \in CurveCountValues :
        Declared(deg, interval, count, MotionDeltas, RandomValues)

SpecMotion == InitMotion /\ [][Next]_vars

\* The same program when the host resumes after a pause of five seconds.
InitPause ==
    \E deg \in 1..MaxDegree, interval \in IntervalValues, count \in CurveCountValues :
        Declared(deg, interval, count, PauseDeltas, RandomValues)

SpecPause == InitPause /\ [][Next]_vars

(***************************************************************************)
(* src/script.js, third variant (lines 467-762): every control point is    *)
(* animated, the frame callback is canvasDrawFrame itself, and its first   *)
(* call only initialises vars.lastFrame.                                   *)
(***************************************************************************)
\* The body of the "Animate main curve" loop for point i.
AnimatePointScript(point, i, upd, rx, ry) ==
    LET distanceX == point.targetX - point.x
        distanceY == point.targetY - point.y
        squared == consts.squaredCurveAnimationSpeed
        arrived == distanceX * distanceX + distanceY * distanceY <= squared
        x1 == IF arrived THEN point.targetX
              ELSE point.x + StepBy(point.stepX, squared, upd)
        y1 == IF arrived THEN point.targetY
              ELSE point.y + StepBy(point.stepY, squared, upd)
        tx == IF arrived /\ i # 0 /\ i # n THEN rx ELSE point.targetX
        ty == IF arrived THEN ry ELSE point.targetY
        calculateSteps == arrived \/ x1 < 0 \/ x1 > Unit \/ y1 < 0 \/ y1 > Unit
        norm == Sqrt(tx * tx + ty * ty)
    IN [x |-> x1, y |-> y1, targetX |-> tx, targetY |-> ty,
        stepX |-> IF calculateSteps THEN RoundDiv((tx - x1) * Unit, norm)
                  ELSE point.stepX,
        stepY |-> IF calculateSteps THEN RoundDiv((ty - y1) * Unit, norm)
                  ELSE point.stepY]

animateCurveScript(curve, upd, rnd) ==
    [i \in DOMAIN curve |-> AnimatePointScript(curve[i], i, upd, rnd[i][1], rnd[i][2])]

DrawsScript == [0..n -> randoms \X randoms]

canvasDrawFrameScript(timestamp) ==
    IF lastFrame = 0
    THEN /\ lastFrame' = timestamp
         /\ UNCHANGED << lastNewCurve, curves, mainCurve, ghost, drawing >>
    ELSE /\ update' = timestamp - lastFrame
         /\ lastFrame' = timestamp
         /\ drawing' = TRUE
         /\ IF ~cacheReady
            THEN /\ inserted' = 0
                 /\ evicted' = 0
                 /\ UNCHANGED << mainCurve, lastNewCurve, curves, updates, evictions >>
            ELSE \E rnd \in DrawsScript :
                   LET moved == animateCurveScript(mainCurve, timestamp - lastFrame, rnd)
                       pushed == IF Due(timestamp)
                                 THEN Append(curves, Snapshot(moved, timestamp))
                                 ELSE curves
                   IN /\ mainCurve' = moved
                      /\ lastNewCurve' =
                           IF Due(timestamp) THEN timestamp ELSE lastNewCurve
                      /\ inserted' = Len(pushed) - Len(curves)
                      /\ evicted' = Overflow(pushed)
                      /\ evictions' = evictions + Overflow(pushed)
                      /\ curves' = Splice(pushed)
                      /\ updates' = updates + 1

\* This variant strokes the live curve first, then the history from the newest.
StrokesScript ==
    << [i \in DOMAIN mainCurve |-> toPoint(mainCurve[i])] >>
    \o [i \in 1..Len(curves) |-> curves[Len(curves) + 1 - i].points]

RenderScript ==
    /\ drawing
    /\ pc = "script"
    /\ drawing' = FALSE
    /\ canvas' = IF cacheReady THEN StrokesScript ELSE << >>
    /\ UNCHANGED << raised, paint, env, table, consts, live, loop, pc, host, ghost, warmupCalls >>

\* The main curve as this variant seeds it: xs holds 0 and 1 as well.
SeedCurvesScript ==
    { [i \in 0..n |->
         IF i = 0 THEN AnimatedPoint(0, ys[i])
         ELSE IF i = n THEN AnimatedPoint(Unit, ys[i])
         ELSE AnimatedPoint(xs[i], ys[i])] :
      xs \in SortedXs, ys \in [0..n -> randoms] }

\* The timestamp of the host's next frame callback.
NextTimestamps ==
    IF frames = 0 THEN ScenarioStarts ELSE { clock + d : d \in deltas }

\* The host calls canvasDrawFrame(timestamp), which requested the frame itself.
ScriptFrame ==
    /\ pc = "script"
    /\ ~drawing
    /\ frames < ScenarioFrames
    /\ \E timestamp \in NextTimestamps :
         /\ clock' = timestamp
         /\ canvasDrawFrameScript(timestamp)
    /\ frames' = frames + 1
    /\ UNCHANGED << raised, paint, env, table, consts, loop, pc, warmupCalls, canvas >>

(***************************************************************************)
(* A driver that calls part_000's canvasDrawFrame directly, one call per   *)
(* frame, as a test of the update does.                                    *)
(***************************************************************************)
DriveFrame ==
    /\ pc = "drive"
    /\ ~drawing
    /\ frames < ScenarioFrames
    /\ \E timestamp \in NextTimestamps :
         /\ clock' = timestamp
         /\ canvasDrawFrame(timestamp)
    /\ frames' = frames + 1
    /\ UNCHANGED << raised, paint, env, table, consts, loop, pc, warmupCalls, canvas >>

\* The globals once the script has run to its end, cache calculation included.
LoadedWith(deg, settings, pacing, rng) ==
    /\ n = deg
    /\ binomial = BuildBinomial(deg)
    /\ cacheReady = TRUE
    /\ consts = settings
    /\ lastNewCurve = -settings.newCurveMs
    /\ curves = << >>
    /\ enableRendering = FALSE
    /\ artificialTimestamp = 0
    /\ firstRealTimestamp = 0
    /\ drawing = FALSE
    /\ deltas = pacing
    /\ randoms = rng
    /\ frames = 0
    /\ clock = 0
    /\ update = 0
    /\ inserted = 0
    /\ evicted = 0
    /\ updates = 0
    /\ evictions = 0
    /\ warmupCalls = 0
    /\ canvas = << >>
    /\ currentColoursIndex = 0
    /\ looked = << >>
    /\ path = << >>
    /\ colourUses = [length |-> 0, indices |-> {}]
    /\ clicks = 0
    /\ raised = ""

Loaded(deg, interval, count, pacing, rng) ==
    LoadedWith(deg, Consts(interval, count), pacing, rng)

\* The 31-frame scenario: frames exactly 1000 ms apart, interval 1000, 30 curves.
InitScenario ==
    /\ \E deg \in 1..MaxDegree :
         Loaded(deg, ScenarioInterval, ScenarioCurves, {ScenarioInterval}, {500})
    /\ lastFrame = 0
    /\ warmup = 0
    /\ \/ pc = "drive" /\ mainCurve \in SeedCurves
       \/ pc = "script" /\ mainCurve \in SeedCurvesScript

NextScenario ==
    \/ DriveFrame
    \/ Render
    \/ ScriptFrame
    \/ RenderScript

SpecScenario == InitScenario /\ [][NextScenario]_vars

\* createRenderingLoop(warmup) for a choice of warm-up durations, after its
\* first two lines.
InitWarmup ==
    /\ \E deg \in 1..MaxDegree, interval \in IntervalValues, count \in CurveCountValues :
         Loaded(deg, interval, count, FrameDeltas, RandomValues)
    /\ lastFrame = -WarmupStep
    /\ warmup \in WarmupValues
    /\ pc = "warmup"
    /\ mainCurve \in SeedCurves

NextWarmup ==
    \/ WarmupFrame
    \/ WarmupDone
    \/ AnimationFrame
    \/ Render

SpecWarmup == InitWarmup /\ [][NextWarmup]_vars

(***************************************************************************)
(* src/script.js, fourth variant (lines 763-988): no live curve; every new *)
(* curve is derived from the newest curve of the history.                  *)
(***************************************************************************)
nclamp(x) == IF x < 0 THEN 0 ELSE IF x > Unit THEN Unit ELSE x

\* base shifted by at most amount / 2 either way, for a draw r.
Jitter(value, amount, r) == nclamp(value + RoundDiv(amount * (r - 500), Unit))

\* The curve the "new curve" block builds from base.
NextCurveChain(base, rnd) ==
    [i \in 0..n |->
       IF i = 0 THEN [x |-> 0, y |-> Jitter(base[0].y, 100, rnd[i][2])]
       ELSE IF i = n THEN [x |-> Unit, y |-> Jitter(base[n].y, 100, rnd[i][2])]
       ELSE [x |-> Jitter(base[i].x, 200, rnd[i][1]),
             y |-> Jitter(base[i].y, 200, rnd[i][2])]]

canvasDrawFrameChain(timestamp) ==
    IF lastFrame = 0
    THEN /\ lastFrame' = timestamp
         /\ UNCHANGED << lastNewCurve, curves, ghost, drawing, raised >>
    ELSE /\ update' = timestamp - lastFrame
         /\ lastFrame' = timestamp
         /\ IF ~cacheReady
            THEN /\ inserted' = 0
                 /\ evicted' = 0
                 /\ drawing' = TRUE
                 /\ raised' = ""
                 /\ UNCHANGED << lastNewCurve, curves, updates, evictions >>
            ELSE IF Due(timestamp) /\ curves = << >>
            THEN \* base is undefined: base[0] raises a TypeError
                 /\ raised' = "TypeError"
                 /\ lastNewCurve' = timestamp
                 /\ inserted' = 0
                 /\ evicted' = 0
                 /\ drawing' = FALSE
                 /\ updates' = updates + 1
                 /\ UNCHANGED << curves, evictions >>
            ELSE \E rnd \in DrawsScript :
                   LET pushed ==
                         IF Due(timestamp)
                         THEN Append(curves,
                                     [points |-> NextCurveChain(curves[Len(curves)].points, rnd),
                                      born |-> timestamp])
                         ELSE curves
                   IN /\ lastNewCurve' =
                           IF Due(timestamp) THEN timestamp ELSE lastNewCurve
                      /\ inserted' = Len(pushed) - Len(curves)
                      /\ evicted' = Overflow(pushed)
                      /\ evictions' = evictions + Overflow(pushed)
                      /\ curves' = Splice(pushed)
                      /\ updates' = updates + 1
                      /\ drawing' = TRUE
                      /\ raised' = ""

\* This variant strokes the history from index 0.
RenderChain ==
    /\ drawing
    /\ pc = "chain"
    /\ drawing' = FALSE
    /\ canvas' = IF cacheReady THEN [i \in 1..Len(curves) |-> curves[i].points]
                 ELSE << >>
    /\ UNCHANGED << raised, paint, env, table, consts, live, loop, pc, host, ghost,
                    warmupCalls >>

\* The host calls canvasDrawFrame(timestamp).
ChainFrame ==
    /\ pc = "chain"
    /\ ~drawing
    /\ frames < MaxFrames
    /\ \E timestamp \in (IF frames = 0 THEN FirstTimestamps
                          ELSE { clock + d : d \in deltas }) :
         /\ clock' = timestamp
         /\ canvasDrawFrameChain(timestamp)
    /\ frames' = frames + 1
    /\ UNCHANGED << paint, env, table, consts, mainCurve, loop, pc, warmupCalls,
                    canvas >>

\* The seeding curve, pushed by the cache calculation.
SeedHistories ==
    { << Snapshot(curve, -1) >> : curve \in SeedCurvesScript }

\* The fourth variant once its script has run, for a choice of its constants.
InitChain ==
    /\ n \in 1..MaxDegree
    /\ binomial = BuildBinomial(n)
    /\ cacheReady = TRUE
    /\ consts \in { Consts(interval, count) :
                       interval \in IntervalValues, count \in CurveCountValues }
    /\ lastFrame = 0
    /\ lastNewCurve = -consts.newCurveMs
    /\ mainCurve = << >>
    /\ enableRendering = FALSE
    /\ warmup = 0
    /\ artificialTimestamp = 0
    /\ firstRealTimestamp = 0
    /\ pc = "chain"
    /\ drawing = FALSE
    /\ deltas = FrameDeltas
    /\ randoms = RandomValues
    /\ curves \in SeedHistories
    /\ frames = 0
    /\ clock = 0
    /\ update = 0
    /\ inserted = 0
    /\ evicted = 0
    /\ updates = 0
    /\ evictions = 0
    /\ warmupCalls = 0
    /\ canvas = << >>
    /\ currentColoursIndex = 0
    /\ looked = << >>
    /\ path = << >>
    /\ colourUses = [length |-> 0, indices |-> {}]
    /\ clicks = 0
    /\ raised = ""

NextChain ==
    \/ ChainFrame
    \/ RenderChain

SpecChain == InitChain /\ [][NextChain]_vars

(***************************************************************************)
(* part_000 as it starts up: the constants as shipped, the script run to   *)
(* its end, the load event pending.                                        *)
(***************************************************************************)
\* consts.newCurveMs and consts.maxCurves as declared.
StartupInterval == 800
StartupCurves == 50

InitStartup ==
    /\ \E deg \in 1..MaxDegree, r \in RandomValues :
         Loaded(deg, StartupInterval, StartupCurves, FrameDeltas, {r})
    /\ lastFrame = 0
    /\ warmup = 0
    /\ pc = "load"
    /\ mainCurve \in SeedCurves

NextStartup ==
    \/ OnWindowLoad
    \/ WarmupFrame
    \/ WarmupDone
    \/ AnimationFrame
    \/ Render

SpecStartup == InitStartup /\ [][NextStartup]_vars

(***************************************************************************)
(* The motion model on its own: animateCurve called frame after frame on   *)
(* the live curve with a positive elapsed time, the "[Speed] Curve         *)
(* Animation" slider moved in between. Elapsed times and speeds are large  *)
(* enough for a step to be at least a thousandth, as a step in the code is *)
(* never 0.                                                                *)
(***************************************************************************)
\* The elapsed times handed to animateCurve, in ms.
SeekDeltasZero == {0}
SeekDeltas == {1000, 3400}

\* The values of the speed slider, in thousandths.
SpeedValues == {10, 20}

\* animateCurve(vars.mainCurve, update).
AnimateCall ==
    /\ pc = "seek"
    /\ \E upd \in deltas, rnd \in Draws :
         mainCurve' = animateCurve(mainCurve, upd, rnd)
    /\ UNCHANGED << raised, paint, env, table, consts, lastFrame, lastNewCurve, curves,
                    loop, pc, drawing, host, ghost, warmupCalls, canvas >>

\* The slider's handler: both speed constants are set.
SliderSpeed ==
    /\ pc = "seek"
    /\ \E value \in SpeedValues :
         consts' = [consts EXCEPT !.curveAnimationSpeed = value,
                                  !.squaredCurveAnimationSpeed = value * value]
    /\ UNCHANGED << raised, paint, env, table, live, loop, pc, drawing, host, ghost,
                    warmupCalls, canvas >>

InitSeek ==
    /\ \E deg \in 1..MaxDegree :
         Loaded(deg, WarmupStep, MaxCurveCount, SeekDeltas, RandomValues)
    /\ lastFrame = 0
    /\ warmup = 0
    /\ pc = "seek"
    /\ mainCurve \in SeedCurves

NextSeek ==
    \/ AnimateCall
    \/ SliderSpeed

\* The frame callback requests itself again: calls keep coming.
SpecSeek == InitSeek /\ [][NextSeek]_vars /\ WF_vars(AnimateCall)

(***************************************************************************)
(* The first variant of src/script.js (lines 1-356): the update of         *)
(* part_000 without the warm-up, the first frame skipped, and a rendering  *)
(* that walks the history from the newest curve down to index 0.           *)
(***************************************************************************)
\* consts.colours.length.
ColoursLength == 6

\* The iterations of the history loop from curve i down, colourIndex being the
\* index the iteration before left behind: each reads colours[colourIndex] and,
\* when nextColourIndex differs, colours[nextColourIndex]. A read outside the
\* array yields undefined, on which interpolate or toCSS raises a TypeError,
\* which ends the loop.
RECURSIVE HistoryPass(_, _)
HistoryPass(i, colourIndex) ==
    IF i < 0 THEN << >>
    ELSE LET nextColourIndex == (ColoursLength * (i - 1)) \div consts.maxCurves
             reads == {colourIndex, nextColourIndex}
         IN << [i |-> i, reads |-> reads] >>
            \o (IF reads \subseteq 0..(ColoursLength - 1)
                THEN HistoryPass(i - 1, nextColourIndex)
                ELSE << >>)

\* The rendering half of canvasDrawFrame: the live curve in the last colour,
\* then the history.
RenderSliding ==
    /\ drawing
    /\ pc = "sliding"
    /\ drawing' = FALSE
    /\ LET pass == HistoryPass(Len(curves) - 1, 0)
           done == SelectSeq(pass, LAMBDA it : it.reads \subseteq 0..(ColoursLength - 1))
       IN /\ colourUses' =
               [length |-> ColoursLength,
                indices |-> {ColoursLength - 1}
                            \cup UNION { pass[k].reads : k \in 1..Len(pass) }]
          /\ raised' = IF Len(done) < Len(pass) THEN "TypeError" ELSE ""
          /\ canvas' = << [i \in DOMAIN mainCurve |-> toPoint(mainCurve[i])] >>
                       \o [k \in 1..Len(done) |-> curves[done[k].i + 1].points]
    /\ UNCHANGED << currentColoursIndex, looked, path, clicks, env, table, consts,
                    live, loop, pc, host, ghost, warmupCalls >>

\* The host calls canvasDrawFrame(timestamp); the first call only initialises
\* vars.lastFrame.
SlidingFrame ==
    /\ pc = "sliding"
    /\ ~drawing
    /\ frames < MaxFrames
    /\ \E timestamp \in (IF frames = 0 THEN FirstTimestamps
                          ELSE { clock + d : d \in deltas }) :
         /\ clock' = timestamp
         /\ IF lastFrame = 0
            THEN /\ lastFrame' = timestamp
                 /\ UNCHANGED << lastNewCurve, curves, mainCurve, ghost, drawing >>
            ELSE canvasDrawFrame(timestamp)
    /\ frames' = frames + 1
    /\ UNCHANGED << raised, paint, env, table, consts, loop, pc, warmupCalls, canvas >>

InitSliding ==
    /\ \E deg \in 1..MaxDegree, interval \in IntervalValues, count \in CurveCountValues :
         Loaded(deg, interval, count, FrameDeltas, RandomValues)
    /\ lastFrame = 0
    /\ warmup = 0
    /\ pc = "sliding"
    /\ mainCurve \in SeedCurves

NextSliding ==
    \/ SlidingFrame
    \/ RenderSliding

SpecSliding == InitSliding /\ [][NextSliding]_vars

(***************************************************************************)
(* The "Curve Control Points" slider (src/fiddle/fiddle.js line 56) calls  *)
(* recalculateCache(value), which the sources at hand do not define.  It   *)
(* is modelled as the reconfiguration the specification describes: lower   *)
(* the flag, set the degree, rebuild the table as the cache calculation    *)
(* does, reseed the live curve, drop the history, raise the flag.  It runs *)
(* to completion: no frame callback runs between its steps.                *)
(***************************************************************************)
\* The reconfiguration with the history left as it was.
RecalculateReseedKeeping ==
    /\ pc = "reseed"
    /\ mainCurve' \in SeedCurves
    /\ pc' = "reready"
    /\ UNCHANGED << raised, paint, env, table, consts, lastFrame, lastNewCurve,
                    curves, loop, drawing, host, ghost, warmupCalls, canvas >>

SliderControlPoints ==
    /\ pc = "idle"
    /\ ~drawing
    /\ \E value \in 1..MaxDegree :
         /\ value # n
         /\ n' = value
    /\ cacheReady' = FALSE
    /\ pc' = "rebuild"
    /\ UNCHANGED << raised, paint, env, binomial, consts, live, loop, drawing, host,
                    ghost, warmupCalls, canvas >>

RecalculateBinomial ==
    /\ pc = "rebuild"
    /\ binomial' = BuildBinomial(n)
    /\ pc' = "reseed"
    /\ UNCHANGED << raised, paint, env, n, cacheReady, consts, live, loop, drawing,
                    host, ghost, warmupCalls, canvas >>

RecalculateReseed ==
    /\ pc = "reseed"
    /\ mainCurve' \in SeedCurves
    /\ curves' = << >>
    /\ pc' = "reready"
    /\ UNCHANGED << raised, paint, env, table, consts, lastFrame, lastNewCurve,
                    loop, drawing, host, ghost, warmupCalls, canvas >>

RecalculateReady ==
    /\ pc = "reready"
    /\ cacheReady' = TRUE
    /\ pc' = "idle"
    /\ UNCHANGED << raised, paint, env, n, binomial, consts, live, loop, drawing,
                    host, ghost, warmupCalls, canvas >>

InitDegree ==
    \E deg \in 1..MaxDegree :
        Declared(deg, WarmupStep, MaxCurveCount, {WarmupStep}, RandomValues)

NextDegree ==
    \/ CacheBinomial
    \/ CacheCurve
    \/ CacheReady
    \/ OnWindowLoad
    \/ WarmupFrame
    \/ WarmupDone
    \/ AnimationFrame
    \/ Render
    \/ SliderControlPoints
    \/ RecalculateBinomial
    \/ RecalculateReseed
    \/ RecalculateReady

SpecDegree == InitDegree /\ [][NextDegree]_vars

(***************************************************************************)
(* The palette: a click on the canvas selects the next one.                *)
(***************************************************************************)
\* The handler without the modulo.
onCanvasClickedNoWrap ==
    /\ pc = "idle"
    /\ ~drawing
    /\ clicks < MaxClicks
    /\ currentColoursIndex' = currentColoursIndex + 1
    /\ clicks' = clicks + 1
    /\ UNCHANGED << raised, looked, path, colourUses, env, table, consts, live, loop, pc,
                    drawing, host, ghost, warmupCalls, canvas >>

\* The listener is added by onWindowLoad, which returns with the loop idle.
onCanvasClicked ==
    /\ pc = "idle"
    /\ ~drawing
    /\ clicks < MaxClicks
    /\ currentColoursIndex' = (currentColoursIndex + 1) % PaletteCount
    /\ clicks' = clicks + 1
    /\ UNCHANGED << raised, looked, path, colourUses, env, table, consts, live, loop, pc,
                    drawing, host, ghost, warmupCalls, canvas >>

InitPalette ==
    \E deg \in 1..MaxDegree, count \in CurveCountValues, r \in RandomValues :
        Declared(deg, WarmupStep, count, {WarmupStep}, {r})

NextPalette ==
    \/ CacheBinomial
    \/ CacheCurve
    \/ CacheReady
    \/ OnWindowLoad
    \/ WarmupFrame
    \/ WarmupDone
    \/ AnimationFrame
    \/ Render
    \/ onCanvasClicked

SpecPalette == InitPalette /\ [][NextPalette]_vars

(***************************************************************************)
(* The lookup table on its own, for every degree the panel offers.         *)
(***************************************************************************)
\* A call getNChooseX(x) once binomial is assigned.
Lookup ==
    /\ pc = "curve"
    /\ \E x \in LookupArguments :
         looked' = [x |-> x, value |-> getNChooseX(x)]
    /\ UNCHANGED << env, table, consts, live, loop, pc, drawing, host, ghost,
                    warmupCalls, canvas, currentColoursIndex, path, clicks, colourUses,
                    raised >>

InitTable ==
    \E deg \in 1..DegreeSliderMax, interval \in IntervalValues, count \in CurveCountValues :
        Declared(deg, interval, count, FrameDeltas, RandomValues)

NextTable ==
    \/ CacheBinomial
    \/ Lookup

SpecTable == InitTable /\ [][NextTable]_vars

(***************************************************************************)
(* renderCurve: the polyline of a curve, sampled at t = k / segments.      *)
(* A factor is kept exactly, as its numerator over segments^n.             *)
(***************************************************************************)
\* Math.pow for integral exponents >= 0; Math.pow(0, 0) is 1.
RECURSIVE Pow(_, _)
Pow(b, e) == IF e = 0 THEN 1 ELSE b * Pow(b, e - 1)

\* The factor without the binomial coefficient.
FactorNoBinomial(i, k) ==
    Pow(consts.numberOfSegments - k, n - i) * Pow(k, i)

\* factor of the source for control point i at sample k, times segments^n.
Factor(i, k) ==
    getNChooseX(i) * Pow(consts.numberOfSegments - k, n - i) * Pow(k, i)

\* The inner loop's sum of factor * value over the control points from i on.
RECURSIVE Weighted(_, _, _)
Weighted(values, k, i) ==
    IF i > n THEN 0
    ELSE Factor(i, k) * values[i] + Weighted(values, k, i + 1)

\* The caller's transforms, of thousandths of the plane to thousandths of a pixel.
transformX(x) == x * CanvasWidth
transformY(y, yTransform) ==
    700 * CanvasHeight
    + RoundDiv(consts.verticalCompression * CanvasHeight * (y - 500), Unit)
    + yTransform

\* The sample for step k.
Sample(curve, yTransform, k) ==
    [x |-> RoundDiv(Weighted([i \in 0..n |-> transformX(curve[i].x)], k, 0),
                    Pow(consts.numberOfSegments, n)),
     y |-> RoundDiv(Weighted([i \in 0..n |-> transformY(curve[i].y, yTransform)], k, 0),
                    Pow(consts.numberOfSegments, n)),
     factors |-> [i \in 0..n |-> Factor(i, k)]]

\* The polyline with the loop stopping one sample early.
renderCurveOpen(curve, yTransform) ==
    [j \in 1..consts.numberOfSegments |-> Sample(curve, yTransform, j - 1)]

renderCurve(curve, yTransform) ==
    [j \in 1..(consts.numberOfSegments + 1) |-> Sample(curve, yTransform, j - 1)]

\* yTransform when history curve i (from 0) is stroked, in thousandths of a
\* pixel: yPerCurve * (length - 1 + slideFactor - i), yPerCurve = -0.01 * height.
yTransformAt(i) ==
    RoundDiv(-10 * CanvasHeight
               * ((Len(curves) - 1 - i) * consts.newCurveMs + (lastFrame - lastNewCurve)),
             consts.newCurveMs)

\* The calls of renderCurve the rendering half makes: the live curve without
\* offset, and every history curve with its own.
Strokable ==
    { [curve |-> [i \in DOMAIN mainCurve |-> toPoint(mainCurve[i])], yTransform |-> 0] }
    \cup { [curve |-> curves[j].points, yTransform |-> yTransformAt(j - 1)] :
             j \in 1..Len(curves) }

\* One call of renderCurve by the rendering half.
StrokeCurve ==
    /\ pc = "idle"
    /\ ~drawing
    /\ enableRendering
    /\ \E stroke \in Strokable :
         path' = [curve |-> stroke.curve,
                  yTransform |-> stroke.yTransform,
                  points |-> renderCurve(stroke.curve, stroke.yTransform)]
    /\ UNCHANGED << env, table, consts, live, loop, pc, drawing, host, ghost,
                    warmupCalls, canvas, currentColoursIndex, looked, clicks, colourUses,
                    raised >>

\* createRenderingLoop(0) after the "Render Quality" slider was set.
InitCurve ==
    /\ \E deg \in 1..MaxDegree, segments \in (MaxSegments - 1)..MaxSegments :
         LoadedWith(deg,
                    [Consts(WarmupStep, MaxCurveCount)
                       EXCEPT !.numberOfSegments = segments],
                    {5000}, RandomValues)
    /\ lastFrame = -WarmupStep
    /\ warmup = 0
    /\ pc = "warmup"
    /\ mainCurve \in SeedCurves

NextCurve ==
    \/ WarmupFrame
    \/ WarmupDone
    \/ AnimationFrame
    \/ Render
    \/ StrokeCurve

SpecCurve == InitCurve /\ [][NextCurve]_vars

(***************************************************************************)
(* The claims.                                                             *)
(***************************************************************************)
IsSuffix(a, b) ==
    Len(a) <= Len(b) /\ a = SubSeq(b, Len(b) - Len(a) + 1, Len(b))

\* n choose k by Pascal's rule, for comparison with the cache.
RECURSIVE Choose(_, _)
Choose(m, k) ==
    IF k < 0 \/ k > m THEN 0
    ELSE IF k = 0 \/ k = m THEN 1
    ELSE Choose(m - 1, k - 1) + Choose(m - 1, k)

\* C1: right after the update of any frame, warm-up or real, the history is no
\* longer than maxCurves as it stands then, whatever the panel did in between.
C1_HistoryWithinMax == drawing => Len(curves) <= consts.maxCurves

\* C1's case: a frame that had to splice off two snapshots at once, which only
\* happens after the panel lowered maxCurves under a filled history.
C1_Witness == drawing /\ pc = "idle" /\ evicted >= 2 /\ Len(curves) = consts.maxCurves

\* C2: every step leaves the history a suffix of what it was, or of what it was
\* with one snapshot appended that is newer than all before; and the history
\* is always in the order of insertion, oldest first.
C2_OldestFirst ==
    [][ /\ \/ IsSuffix(curves', curves)
           \/ /\ curves' # << >>
              /\ IsSuffix(SubSeq(curves', 1, Len(curves') - 1), curves)
              /\ \A i \in 1..Len(curves) :
                   curves[i].born < curves'[Len(curves')].born
        /\ \A i, j \in 1..Len(curves') :
             i < j => curves'[i].born < curves'[j].born ]_vars

\* C2's case: a frame that appended one snapshot and spliced the oldest off,
\* with an older snapshot staying.
C2_Witness == drawing /\ inserted = 1 /\ evicted = 1 /\ Len(curves) = 2

\* C3: a frame whose update runs pushes exactly when now - lastNewCurve >=
\* newCurveMs; then it pushes one snapshot, of the live curve as the frame moved
\* it, and lastNewCurve becomes now; otherwise the history gains nothing and
\* lastNewCurve stays.
C3_InsertIffDue ==
    [][ (~drawing /\ drawing' /\ cacheReady) =>
          LET now == lastFrame'
              snapshot == [points |-> [i \in DOMAIN mainCurve' |->
                                         [x |-> mainCurve'[i].x, y |-> mainCurve'[i].y]],
                           born |-> now]
          IN IF now - lastNewCurve >= consts.newCurveMs
             THEN /\ inserted' = 1
                  /\ lastNewCurve' = now
                  /\ IsSuffix(curves', Append(curves, snapshot))
                  /\ Len(curves') = Len(curves) + 1 - evicted'
             ELSE /\ inserted' = 0
                  /\ lastNewCurve' = lastNewCurve
                  /\ IsSuffix(curves', curves) ]_vars

\* C3's case: a frame whose elapsed time spans several intervals pushed one
\* snapshot, which is in the history.
C3_Witness ==
    /\ drawing /\ cacheReady /\ inserted = 1
    /\ update >= 2 * consts.newCurveMs
    /\ curves # << >> /\ curves[Len(curves)].born = lastFrame

\* C4 as claimed: once 31 frames have been driven, 1000 ms apart, the history
\* holds exactly 30 snapshots and exactly one has been evicted, 31 having been
\* inserted.
C4_Original ==
    (frames = 31 /\ (pc = "script" \/ drawing)) =>
        Len(curves) = 30 /\ evictions = 1 /\ Len(curves) + evictions = 31

\* C4, amended: counted in frames whose update ran (the first callback of
\* script.js's canvasDrawFrame only initialises lastFrame), the history grows
\* by one per update up to 30, nothing is evicted before the 31st update, and
\* the 31st update inserts one snapshot and then evicts exactly one.
C4_ThirtyOneUpdates ==
    /\ updates <= 30 => Len(curves) = updates /\ evictions = 0
    /\ updates = 31 => /\ Len(curves) = 30
                       /\ evictions = 1
                       /\ (drawing => inserted = 1 /\ evicted = 1)

\* C4's case: script.js's canvasDrawFrame has run its 31st update, in its 32nd
\* callback, and that update evicted the first snapshot.
C4_Witness ==
    /\ pc = "script" /\ drawing /\ updates = 31 /\ frames = 32
    /\ inserted = 1 /\ evicted = 1 /\ Len(curves) = 30

\* C5: the warm-up loop of createRenderingLoop(T) calls canvasDrawFrame with the
\* timestamps 0, 16, 32, ... not above T, each 16 ms after the one before, so
\* floor(T / 16) + 1 times in all; no real frame is handled and nothing is
\* stroked before the loop is over.
C5_WarmupCalls ==
    /\ pc = "warmup" =>
         /\ frames = 0
         /\ canvas = << >>
         /\ ~enableRendering
         /\ warmupCalls = (artificialTimestamp \div WarmupStep) + (IF drawing THEN 1 ELSE 0)
         /\ drawing => /\ update = WarmupStep
                       /\ lastFrame = WarmupStep * (warmupCalls - 1)
                       /\ lastFrame <= warmup
    /\ pc = "idle" => /\ warmupCalls = (warmup \div WarmupStep) + 1
                      /\ updates >= warmupCalls
    /\ frames > 0 => pc = "idle"

\* C5's case: a warm-up of 800 ms is over after 51 calls and real frames run.
C5_Witness == pc = "idle" /\ warmup = 800 /\ warmupCalls = 51 /\ frames >= 2 /\ canvas # << >>

\* C6 as claimed: the callback that finds no baseline only records it; every
\* other callback updates with simulated time warmup + (timestamp - baseline).
C6_Original ==
    [][ frames' = frames + 1 =>
          IF firstRealTimestamp = 0
          THEN firstRealTimestamp' = clock' /\ ~drawing' /\ UNCHANGED << live, canvas >>
          ELSE drawing' /\ lastFrame' = warmup + (clock' - firstRealTimestamp) ]_vars

\* C6, amended: the simulated time is counted from the first multiple of 16
\* above the warm-up duration, where the warm-up loop's clock stopped.
C6_SimulatedTime ==
    [][ frames' = frames + 1 =>
          IF firstRealTimestamp = 0
          THEN firstRealTimestamp' = clock' /\ ~drawing' /\ UNCHANGED << live, canvas >>
          ELSE /\ drawing'
               /\ updates' = updates + 1
               /\ lastFrame' = ((warmup \div WarmupStep) + 1) * WarmupStep
                               + (clock' - firstRealTimestamp) ]_vars

\* C6's case: a real frame has updated, some time after the baseline, at a
\* simulated time other than warmup + (timestamp - baseline).
C6_Witness ==
    /\ pc = "idle" /\ drawing /\ frames >= 2
    /\ clock > firstRealTimestamp
    /\ lastFrame # warmup + (clock - firstRealTimestamp)

\* C7 as claimed: no update of a real frame sees more elapsed time than the
\* pause threshold of 1000 ms.
C7_Original == (pc = "idle" /\ frames >= 2) => update <= 1000

\* C8: while the flag is down no frame has run (nothing updated, pushed or
\* stroked), and while it is up the table is row n of Pascal's triangle and the
\* live curve has n + 1 control points.
C8_ReadinessGate ==
    /\ ~cacheReady =>
         /\ updates = 0 /\ frames = 0 /\ ~drawing
         /\ curves = << >> /\ canvas = << >>
    /\ cacheReady =>
         /\ Len(binomial) = (n \div 2) + 1
         /\ \A x \in 0..n : getNChooseX(x) = Choose(n, x)
         /\ DOMAIN mainCurve = 0..n

\* C8's case: a frame has stroked curves with the flag up.
C8_Witness == cacheReady /\ ~drawing /\ updates > 0 /\ Len(canvas) >= 2

\* C9: a frame strokes only from the state its update left (the canvas changes
\* in no other step), and that step changes nothing the engine owns.
C9_RenderIsPure ==
    [][ /\ drawing => UNCHANGED engine
        /\ canvas' # canvas => drawing /\ ~drawing' ]_vars

\* C9's case: a frame that moved a point and pushed a snapshot has rendered.
C9_Witness == ~drawing /\ pc = "idle" /\ inserted = 1 /\ Len(canvas) >= 2

\* C10 as claimed: an update with elapsed time 0 leaves every control point of
\* the live curve where it was.
C10_Original ==
    [][ (~drawing /\ drawing' /\ update' = 0) =>
          \A i \in DOMAIN mainCurve :
            /\ mainCurve'[i].x = mainCurve[i].x
            /\ mainCurve'[i].y = mainCurve[i].y ]_vars

\* C11 as claimed: when the step an interior control point would take in an
\* update is at least as long as its remaining distance to the target, the
\* update leaves the point exactly on the target it had before.
C11_Original ==
    [][ (~drawing /\ drawing' /\ cacheReady) =>
          \A i \in 1..(n - 1) :
            LET point == mainCurve[i]
                distanceX == point.targetX - point.x
                distanceY == point.targetY - point.y
                moveX == StepBy(point.stepX, consts.squaredCurveAnimationSpeed, update')
                moveY == StepBy(point.stepY, consts.squaredCurveAnimationSpeed, update')
            IN moveX * moveX + moveY * moveY >= distanceX * distanceX + distanceY * distanceY
               => /\ mainCurve'[i].x = point.targetX
                  /\ mainCurve'[i].y = point.targetY ]_vars

\* m choose k by the product formula, for degrees where Pascal's rule is slow.
RECURSIVE Binomial(_, _)
Binomial(m, k) ==
    IF k < 0 \/ k > m THEN 0
    ELSE IF k = 0 THEN 1
    ELSE (Binomial(m, k - 1) * (m - k + 1)) \div k

\* C12: for every degree 1..20, once the table is built getNChooseX(k) is n
\* choose k for 0 <= k <= n, hence symmetric and 1 at both ends, and 0 for
\* k < 0 and k > n.
C12_LookupIsBinomial ==
    pc = "curve" =>
      /\ \A k \in 0..n : /\ getNChooseX(k) = Binomial(n, k)
                          /\ getNChooseX(k) = getNChooseX(n - k)
      /\ getNChooseX(0) = 1 /\ getNChooseX(n) = 1
      /\ \A k \in LookupArguments : (k < 0 \/ k > n) => getNChooseX(k) = 0
      /\ looked # << >> => looked.value = Binomial(n, looked.x)

\* C12's case: degree 20, a lookup in the mirrored half of the row.
C12_Witness == looked # << >> /\ n = 20 /\ looked.x = 13 /\ looked.value = 77520

\* The sum of a sample's factors over the control points from i on.
RECURSIVE FactorSum(_, _)
FactorSum(factors, i) ==
    IF i > n THEN 0 ELSE factors[i] + FactorSum(factors, i + 1)

\* C13: the polyline renderCurve strokes has segments + 1 points; its first is
\* control point 0 and its last is control point n, as the caller's transforms
\* map them.
C13_PolylineEndpoints ==
    path # << >> =>
      LET last == Len(path.points)
      IN /\ last = consts.numberOfSegments + 1
         /\ path.points[1].x = transformX(path.curve[0].x)
         /\ path.points[1].y = transformY(path.curve[0].y, path.yTransform)
         /\ path.points[last].x = transformX(path.curve[n].x)
         /\ path.points[last].y = transformY(path.curve[n].y, path.yTransform)

\* C13's case: a history curve of degree 2 stroked in three segments, shifted
\* upwards, with its middle control point off the line between its ends.
C13_Witness ==
    /\ path # << >> /\ n = 2 /\ consts.numberOfSegments = 3
    /\ path.yTransform # 0
    /\ \E j \in 1..Len(curves) : curves[j].points = path.curve
    /\ path.curve[1].y # 500
    /\ path.points[2].y # path.points[1].y

\* C14: at every sample k of a stroked polyline the factors
\* getNChooseX(i) * (segments - k)^(n - i) * k^i sum to segments^n, that is, the
\* Bernstein weights sum to 1.
C14_FactorsSumToOne ==
    path # << >> =>
      \A j \in 1..Len(path.points) :
        FactorSum(path.points[j].factors, 0) = Pow(consts.numberOfSegments, n)

\* C14's case: degree 2 in four segments, a sample inside the curve where all
\* three factors are positive.
C14_Witness ==
    /\ path # << >> /\ n = 2 /\ consts.numberOfSegments = 4
    /\ path.points[2].factors = (0 :> 9 @@ 1 :> 6 @@ 2 :> 1)

\* C15 as claimed: with maxCurves = 0 no frame callback raises an error, and
\* the history is empty after every update.
C15_Original ==
    consts.maxCurves = 0 =>
      /\ raised = ""
      /\ (drawing /\ cacheReady) => curves = << >>

C17_PaletteCycle ==
    /\ [](/\ currentColoursIndex \in 0..(PaletteCount - 1)
          /\ currentColoursIndex = clicks % PaletteCount)
    /\ [][ clicks' # clicks =>
             /\ currentColoursIndex' = (currentColoursIndex + 1) % PaletteCount
             /\ UNCHANGED << engine, loop, host, ghost, warmupCalls, canvas,
                             drawing, pc >> ]_vars

\* C17's case: the ninth click, between two frames, is back at palette 0.
C17_Witness ==
    clicks = PaletteCount /\ currentColoursIndex = 0 /\ frames = 2 /\ updates > 0

\* C18 as claimed: every interior control point of the live curve has both
\* coordinates within [0, 1].
C18_Original ==
    \A i \in DOMAIN mainCurve :
      (i # 0 /\ i # n) =>
        /\ mainCurve[i].x >= 0 /\ mainCurve[i].x <= Unit
        /\ mainCurve[i].y >= 0 /\ mainCurve[i].y <= Unit

\* C19: in every frame that renders, the slide factor
\* (timestamp - lastNewCurve) / newCurveMs is at least 0 and below 1, that is,
\* 0 <= timestamp - lastNewCurve < newCurveMs, also after the interval slider
\* was moved.
C19_SlideFraction ==
    (drawing /\ cacheReady /\ enableRendering) =>
      /\ consts.newCurveMs > 0
      /\ 0 <= lastFrame - lastNewCurve
      /\ lastFrame - lastNewCurve < consts.newCurveMs

\* C19's case: the interval was raised from 16 to 40 after the warm-up (which
\* lasted 2 * 16 ms), and the next frame renders 16 ms after the last
\* insertion, with a slide factor of 0.4.
C19_Witness ==
    /\ drawing /\ cacheReady /\ enableRendering
    /\ warmup = 2 * WarmupStep /\ consts.newCurveMs = 40
    /\ inserted = 0 /\ lastFrame - lastNewCurve = 16

\* C20: a snapshot pushed by a frame holds the n + 1 positions the live curve
\* has right after that frame moved it, and every snapshot that stays in the
\* history keeps exactly the positions it had, whatever the live curve does.
C20_SnapshotFrozen ==
    [][ \A j \in 1..Len(curves') :
          /\ DOMAIN curves'[j].points = 0..n
          /\ IF \E k \in 1..Len(curves) : curves[k].born = curves'[j].born
             THEN \A k \in 1..Len(curves) :
                    curves[k].born = curves'[j].born
                    => curves'[j].points = curves[k].points
             ELSE \A i \in 0..n :
                    /\ curves'[j].points[i].x = mainCurve'[i].x
                    /\ curves'[j].points[i].y = mainCurve'[i].y ]_vars

\* C20's case: a snapshot from an earlier frame is still in the history after
\* the live curve has moved away from the positions it holds.
C20_Witness ==
    /\ drawing /\ pc = "idle" /\ curves # << >>
    /\ curves[1].born < lastFrame
    /\ \E i \in 1..(n - 1) :
         /\ curves[1].points[i].x # mainCurve[i].x
         /\ mainCurve[i].x # mainCurve[i].targetX

\* C21 as claimed: whenever an interior control point retargets, its new step
\* vector has length 1 (stepX^2 + stepY^2 = 1, up to the rounding of the
\* thousandths) and is a positive multiple of (targetX - x, targetY - y).
C21_Original ==
    [][ (~drawing /\ drawing' /\ cacheReady) =>
          \A i \in 1..(n - 1) :
            LET before == mainCurve[i]
                point == mainCurve'[i]
                distanceX == before.targetX - before.x
                distanceY == before.targetY - before.y
                dx == point.targetX - point.x
                dy == point.targetY - point.y
                length == point.stepX * point.stepX + point.stepY * point.stepY
            IN distanceX * distanceX + distanceY * distanceY
                 <= consts.squaredCurveAnimationSpeed
               => /\ Abs(length - Unit * Unit) <= 2 * Unit
                  /\ point.stepX * dx + point.stepY * dy > 0
                  /\ 2 * Abs(point.stepX * dy - point.stepY * dx)
                       <= Abs(dx) + Abs(dy) ]_vars

\* C22 as claimed: every colour index a rendering reads from the palette to
\* colour the history lies in [0, paletteLength).
C22_Original ==
    \A index \in colourUses.indices :
      0 <= index /\ index < colourUses.length

\* C23: with the start-up constants (interval 800 ms, 50 curves, warm-up of
\* 50 * 800 ms in steps of 16 ms) the history holds exactly maxCurves snapshots
\* from the moment rendering is enabled, and every frame drawn strokes
\* maxCurves history curves and the live curve.
C23_FullHistory ==
    /\ enableRendering => Len(curves) = consts.maxCurves
    /\ canvas # << >> => Len(canvas) = consts.maxCurves + 1

\* C23's case: the warm-up made its 2501 calls and spliced the 51st snapshot
\* off, and the first real frame was drawn with 50 history curves.
C23_Witness ==
    /\ enableRendering /\ pc = "idle" /\ ~drawing
    /\ warmupCalls = 2501 /\ evictions >= 1
    /\ Len(curves) = StartupCurves
    /\ canvas # << >> /\ Len(canvas) = StartupCurves + 1

\* Point i is within the arrival distance of its target: the next call of
\* animateCurve puts it on the target and draws a new one.
Arrived(i) ==
    LET point == mainCurve[i]
        distanceX == point.targetX - point.x
        distanceY == point.targetY - point.y
    IN distanceX * distanceX + distanceY * distanceY
         <= consts.squaredCurveAnimationSpeed

\* C24: with a positive speed and a positive elapsed time in every call, every
\* interior control point arrives at its target again and again; none seeks
\* forever.
C24_ArrivesAgainAndAgain ==
    \A i \in 1..MaxDegree : []<>(i < n => Arrived(i))

\* C24's case: an interior point that was sent to a target away from its
\* position, travelled, and is on that target now.
C24_Witness ==
    /\ pc = "seek" /\ n = 2
    /\ Arrived(1)
    /\ mainCurve[1].stepX # 0 /\ mainCurve[1].stepY # 0
    /\ mainCurve[1].x = mainCurve[1].targetX
    /\ mainCurve[1].y = mainCurve[1].targetY

=============================================================================
